---- MODULE Spec2Model ----
(***************************************************************************)
(* Model of simulation_code/problem_2.py: the defect extractor              *)
(* (process_measurements), the decoding graph builder                       *)
(* (build_decoding_graph) and the threshold crossing search of              *)
(* simulate_threshold.                                                       *)
(*                                                                           *)
(* Python sequences are 0-based; the sequences below are 1-based, so an     *)
(* element at Python offset k is element k+1 here.                           *)
(***************************************************************************)
EXTENDS Integers, Sequences, FiniteSets, TLC

VARIABLES
    d,              \* the distance argument of the function under way
    p,              \* data-qubit error probability (per mille)
    q,              \* ancilla error probability (per mille)
    sampled_runs,   \* process_measurements: the batch of raw records
    defects,        \* process_measurements: the list `defects`
    run_idx,        \* process_measurements: number of runs already processed
    epc,            \* process_measurements: control state / outcome
    graph,          \* build_decoding_graph: the edges added so far, in order
    t,              \* build_decoding_graph: outer loop variable
    i,              \* build_decoding_graph: inner loop variable
    gpc,            \* build_decoding_graph: control state
    results,        \* simulate_threshold: results[d][i], the pL table
    prob_i,         \* simulate_threshold: loop variable i of the crossing search
    dist_k,         \* simulate_threshold: position of d in distances (1-based)
    pL_prev_dist,   \* simulate_threshold: pL_prev_dist
    all_d,          \* simulate_threshold: all_d
    threshold_p,    \* simulate_threshold: threshold_p
    tpc             \* simulate_threshold: control state / outcome

evars == <<sampled_runs, defects, run_idx, epc>>
gvars == <<graph, t, i, gpc>>
tvars == <<results, prob_i, dist_k, pL_prev_dist, all_d, threshold_p, tpc>>
vars == <<d, p, q, evars, gvars, tvars>>

(***************************************************************************)
(* Bounds of the model.                                                      *)
(***************************************************************************)
MaxShotD == 3       \* largest distance whose raw records are enumerated
MaxExtra == 1       \* how far a record may exceed the expected length
MaxD == 4           \* largest distance given to build_decoding_graph
NumProbs == 4       \* len(probabilities): 20 in the code, fewer here

Min(a, b) == IF a < b THEN a ELSE b

\* Python's None, against Some(v) == <<v>>
None == <<>>

(***************************************************************************)
(* process_measurements                                                      *)
(***************************************************************************)
Bit == {0, 1}

\* a ^ b on bits
Xor(a, b) == (a + b) % 2

\* run[:m] for m >= 0: the first m elements, or all of them when there are fewer
SliceHead(run, m) == SubSeq(run, 1, Min(Len(run), m))

\* run[m:], the slice with the sign of m lost
SliceFrom(run, m) == SubSeq(run, m + 1, Len(run))

\* run[-m:] for m >= 1: the last m elements, or all of them when there are fewer
SliceTail(run, m) == SubSeq(run, Len(run) - Min(Len(run), m) + 1, Len(run))

\* whether flat.reshape(rows, cols) is accepted by numpy
ReshapeOk(flat, rows, cols) == Len(flat) = rows * cols

\* flat.reshape(rows, cols): row-major
Reshape(flat, rows, cols) ==
    [r \in 1..rows |-> [c \in 1..cols |-> flat[(r - 1) * cols + c]]]

\* whether final_data[ii] and final_data[ii + 1] exist for every ii in range(dd - 1)
ProjectedOk(final_data, dd) == \A ii \in 0..(dd - 2) : ii + 2 <= Len(final_data)

\* [final_data[ii] ^ final_data[ii + 1] for ii in range(dd - 1)]
projected_syndrome(final_data, dd) ==
    [c \in 1..(dd - 1) |-> Xor(final_data[c], final_data[c + 1])]

\* np.vstack([measured_syndromes, projected_syndrome])
VStack(measured_syndromes, projected) == Append(measured_syndromes, projected)

\* syndrome_in_this_run of a run that passes the reshape and the indexing
syndrome_in_this_run(run, dd) ==
    VStack(Reshape(SliceHead(run, (dd - 1) * (dd - 1)), dd - 1, dd - 1),
           projected_syndrome(SliceTail(run, dd), dd))

\* the syndrome itself, the difference in time forgotten
DefectAtRaw(S, tt, ii) == S[tt + 1][ii + 1]

\* the body of the t, i loops: the defect appended for (tt, ii)
DefectAt(S, tt, ii) ==
    IF tt = 0 THEN S[1][ii + 1]
    ELSE Xor(S[tt + 1][ii + 1], S[tt][ii + 1])

\* the nested loops `for t in range(n_rounds): for i in range(n_ancillas)`,
\* appending to defects_in_this_run (acc) from iteration (tt, ii) onwards
RECURSIVE DefectLoop(_, _, _, _, _, _)
DefectLoop(S, n_rounds, n_ancillas, tt, ii, acc) ==
    IF tt >= n_rounds THEN acc
    ELSE IF ii >= n_ancillas THEN DefectLoop(S, n_rounds, n_ancillas, tt + 1, 0, acc)
    ELSE DefectLoop(S, n_rounds, n_ancillas, tt, ii + 1,
                    Append(acc, DefectAt(S, tt, ii)))

defects_in_this_run(run, dd) ==
    DefectLoop(syndrome_in_this_run(run, dd), dd, dd - 1, 0, 0, <<>>)

\* what one iteration of `for run in sampled_runs` ends in
RunOutcome(run, dd) ==
    IF ~ReshapeOk(SliceHead(run, (dd - 1) * (dd - 1)), dd - 1, dd - 1)
        THEN "ValueError"
    ELSE IF ~ProjectedOk(SliceTail(run, dd), dd) THEN "IndexError"
    ELSE "ok"

\* length of a raw record of distance dd
RecordLen(dd) == (dd - 1) * (dd - 1) + dd

\* one iteration of `for run in sampled_runs`
ProcessRun ==
    /\ epc = "loop"
    /\ run_idx < Len(sampled_runs)
    /\ LET run == sampled_runs[run_idx + 1]
           out == RunOutcome(run, d)
       IN  IF out = "ok"
           THEN /\ defects' = Append(defects, defects_in_this_run(run, d))
                /\ run_idx' = run_idx + 1
                /\ epc' = "loop"
           ELSE /\ epc' = out
                /\ UNCHANGED <<defects, run_idx>>
    /\ UNCHANGED <<d, p, q, sampled_runs, gvars, tvars>>

\* `return np.array(defects, dtype=int)` once the batch is exhausted
ProcessReturn ==
    /\ epc = "loop"
    /\ run_idx = Len(sampled_runs)
    /\ epc' = "returned"
    /\ UNCHANGED <<d, p, q, sampled_runs, defects, run_idx, gvars, tvars>>

(***************************************************************************)
(* build_decoding_graph                                                      *)
(***************************************************************************)
\* probabilities given to the builder, per mille: the ends of the swept range
PValues == {50, 150}

\* rows of d nodes instead of d - 1
get_index_wide(dd, tt, ii) == dd * tt + ii

\* the ancillas of a round numbered from the right
get_index_reversed(dd, tt, ii) == (dd - 1) * tt + (dd - 2 - ii)

\* get_index(d, t, i)
get_index(dd, tt, ii) == (dd - 1) * tt + ii

\* range(d)
Rounds(dd) == 0..(dd - 1)

\* range(1, d)
SpaceInnerWide(dd) == 1..(dd - 1)

\* range(1, d - 1)
SpaceInner(dd) == 1..(dd - 2)

\* range(1, d)
TimeRounds(dd) == 1..(dd - 1)

\* range(d)
AncillasWide(dd) == 0..(dd - 1)

\* range(d - 1)
Ancillas(dd) == 0..(dd - 2)

\* graph.add_edge(a, b, error_probability=pr, fault_ids=f)
AddEdge(g, a, b, pr, f) ==
    Append(g, [call |-> "add_edge", node1 |-> a, node2 |-> b,
               error_probability |-> pr, fault_ids |-> f])

\* graph.add_boundary_edge(idx, error_probability=pr, fault_ids=f); the call
\* names one node only, node2 repeats it
AddBoundaryEdge(g, idx, pr, f) ==
    Append(g, [call |-> "add_boundary_edge", node1 |-> idx, node2 |-> idx,
               error_probability |-> pr, fault_ids |-> f])

\* is_edge = i in [0, d - 2]
is_edge(dd, ii) == ii \in {0, dd - 2}

\* fault_id = 0 if i == 0 else d
fault_id_off(dd, ii) == IF ii = 0 THEN 0 ELSE dd

\* fault_id = 0 if i == 0 else d - 1
fault_id(dd, ii) == IF ii = 0 THEN 0 ELSE dd - 1

\* body of the space-like loop
SpaceEdge ==
    /\ gpc = "space"
    /\ t \in Rounds(d)
    /\ i \in SpaceInner(d)
    /\ graph' = AddEdge(graph, get_index(d, t, i - 1), get_index(d, t, i), p, {i})
    /\ i' = i + 1
    /\ UNCHANGED <<d, p, q, evars, t, gpc, tvars>>

\* `for i in range(1, d - 1)` exhausted: next t
SpaceNextRound ==
    /\ gpc = "space"
    /\ t \in Rounds(d)
    /\ i \notin SpaceInner(d)
    /\ t' = t + 1
    /\ i' = 1
    /\ UNCHANGED <<d, p, q, evars, graph, gpc, tvars>>

\* `for t in range(d)` exhausted: on to the time-like loop
SpaceDone ==
    /\ gpc = "space"
    /\ t \notin Rounds(d)
    /\ gpc' = "time"
    /\ t' = 1
    /\ i' = 0
    /\ UNCHANGED <<d, p, q, evars, graph, tvars>>

\* body of the time-like loop
TimeEdge ==
    /\ gpc = "time"
    /\ t \in TimeRounds(d)
    /\ i \in Ancillas(d)
    /\ graph' = AddEdge(graph, get_index(d, t - 1, i), get_index(d, t, i), q, {})
    /\ i' = i + 1
    /\ UNCHANGED <<d, p, q, evars, t, gpc, tvars>>

\* `for i in range(d - 1)` exhausted: next t
TimeNextRound ==
    /\ gpc = "time"
    /\ t \in TimeRounds(d)
    /\ i \notin Ancillas(d)
    /\ t' = t + 1
    /\ i' = 0
    /\ UNCHANGED <<d, p, q, evars, graph, gpc, tvars>>

\* `for t in range(1, d)` exhausted: on to the boundary loop
TimeDone ==
    /\ gpc = "time"
    /\ t \notin TimeRounds(d)
    /\ gpc' = "boundary"
    /\ t' = 0
    /\ i' = 0
    /\ UNCHANGED <<d, p, q, evars, graph, tvars>>

\* body of the boundary loop
BoundaryNode ==
    /\ gpc = "boundary"
    /\ t \in Rounds(d)
    /\ i \in Ancillas(d)
    /\ graph' = IF is_edge(d, i)
                THEN AddBoundaryEdge(graph, get_index(d, t, i), p, {fault_id(d, i)})
                ELSE graph
    /\ i' = i + 1
    /\ UNCHANGED <<d, p, q, evars, t, gpc, tvars>>

\* `for i in range(d - 1)` exhausted: next t
BoundaryNextRound ==
    /\ gpc = "boundary"
    /\ t \in Rounds(d)
    /\ i \notin Ancillas(d)
    /\ t' = t + 1
    /\ i' = 0
    /\ UNCHANGED <<d, p, q, evars, graph, gpc, tvars>>

\* `for t in range(d)` exhausted: return graph
BuildReturn ==
    /\ gpc = "boundary"
    /\ t \notin Rounds(d)
    /\ gpc' = "returned"
    /\ UNCHANGED <<d, p, q, evars, graph, t, i, tvars>>

BuildStep ==
    \/ SpaceEdge
    \/ SpaceNextRound
    \/ SpaceDone
    \/ TimeEdge
    \/ TimeNextRound
    \/ TimeDone
    \/ BoundaryNode
    \/ BoundaryNextRound
    \/ BuildReturn

\* simulate_threshold: graph = build_decoding_graph(d, p, p), after
\* defects = process_measurements(samples, d) has returned
BuildAfterExtract ==
    /\ epc = "returned"
    /\ gpc = "wait"
    /\ gpc' = "space"
    /\ graph' = <<>>
    /\ t' = 0
    /\ i' = 1
    /\ UNCHANGED <<d, p, q, evars, tvars>>

(***************************************************************************)
(* simulate_threshold: the crossing search                                   *)
(***************************************************************************)
\* distances = [3, 5, 7, 9]
distances == <<3, 5, 7, 9>>

\* np.linspace(0.05, 0.15, 20): its two ends, in hundredths
LinStart == 5
LinStop == 15

\* probabilities[j] of np.linspace(LinStart, LinStop, NumProbs), in units of
\* 1 / (200 * (NumProbs - 1)), which keeps every midpoint an integer;
\* a negative j counts from the end, as Python indexing does
probabilities(j) ==
    LET k == IF j < 0 THEN NumProbs + j ELSE j
    IN  2 * (LinStart * (NumProbs - 1) + k * (LinStop - LinStart))

\* (probabilities[i - 1] + probabilities[i]) / 2
Midpoint(ii) == (probabilities(ii - 1) + probabilities(ii)) \div 2

\* range(len(probabilities) - 1)
SearchRange == 0..(NumProbs - 2)

\* threshold_p is None, or holds a value
Some(v) == <<v>>

\* The logical error rates of the four distances at one probability, as
\* numbers of failed shots (pL * n_runs).  The sampler and the matching
\* decoder that produce them are outside the repository: the table is an
\* input, one of these columns per probability.
Columns ==
    { <<1, 2, 3, 4>>,     \* strictly increasing with distance
      <<0, 1, 2, 3>>,     \* strictly increasing from zero
      <<0, 0, 1, 2>>,     \* two zeros, then increasing
      <<0, 0, 0, 1>>,     \* zero up to the last distance
      <<0, 0, 0, 0>>,     \* no failed shot at all
      <<4, 3, 2, 1>>,     \* strictly decreasing with distance
      <<1, 1, 1, 1>>,     \* equal for all distances
      <<1, 2, 3, 3>>,     \* increasing, the last one equal
      <<2, 1, 3, 4>>,     \* one drop, then increasing
      <<1, 2, 0, 1>> }    \* a drop to zero, then increasing

DistSet == {distances[k] : k \in 1..Len(distances)}

\* results[dv][ii] of the code
pL(dv, ii) == results[dv][ii + 1]

\* `pL_prev_dist > 0`, the test of the first index dropped
ShouldCompareAtZero(ii, prev) == prev > 0

\* `i > 0 and pL_prev_dist > 0`
ShouldCompare(ii, prev) == ii > 0 /\ prev > 0

\* `pL_prev_dist <= results[d][i]`
NotDecreasing(prev, cur) == prev <= cur

\* `pL_prev_dist < results[d][i]`
Increasing(prev, cur) == prev < cur

\* `d == distances[-1] and all_d`
MarksThreshold(dv, flag) == dv = distances[Len(distances)] /\ flag

\* `for i in range(len(probabilities) - 1)`: next i; pL_prev_dist = -1; all_d = True
SearchIndex ==
    /\ tpc = "search"
    /\ prob_i \in SearchRange
    /\ pL_prev_dist' = 0 - 1
    /\ all_d' = TRUE
    /\ dist_k' = 1
    /\ tpc' = "walk"
    /\ UNCHANGED <<d, p, q, evars, gvars, results, prob_i, threshold_p>>

\* `for i in range(len(probabilities) - 1)` exhausted
SearchExhausted ==
    /\ tpc = "search"
    /\ prob_i \notin SearchRange
    /\ tpc' = "plot"
    /\ UNCHANGED <<d, p, q, evars, gvars, results, prob_i, dist_k,
                   pL_prev_dist, all_d, threshold_p>>

\* body of `for d in distances`
WalkDistance ==
    /\ tpc = "walk"
    /\ dist_k \in 1..Len(distances)
    /\ LET dv == distances[dist_k]
           cur == pL(dv, prob_i)
       IN  IF /\ ShouldCompare(prob_i, pL_prev_dist)
              /\ Increasing(pL_prev_dist, cur)
              /\ MarksThreshold(dv, all_d)
           THEN \* threshold_p = ...; break
                /\ threshold_p' = Some(Midpoint(prob_i))
                /\ tpc' = "endindex"
                /\ UNCHANGED <<all_d, pL_prev_dist, dist_k>>
           ELSE /\ all_d' = IF /\ ShouldCompare(prob_i, pL_prev_dist)
                               /\ ~Increasing(pL_prev_dist, cur)
                            THEN FALSE ELSE all_d
                /\ pL_prev_dist' = cur
                /\ dist_k' = dist_k + 1
                /\ UNCHANGED <<threshold_p, tpc>>
    /\ UNCHANGED <<d, p, q, evars, gvars, results, prob_i>>

\* `for d in distances` exhausted
WalkDone ==
    /\ tpc = "walk"
    /\ dist_k \notin 1..Len(distances)
    /\ tpc' = "endindex"
    /\ UNCHANGED <<d, p, q, evars, gvars, results, prob_i, dist_k,
                   pL_prev_dist, all_d, threshold_p>>

\* `if threshold_p is not None: break`, else the next i
EndIndex ==
    /\ tpc = "endindex"
    /\ IF threshold_p # None
       THEN tpc' = "plot" /\ UNCHANGED prob_i
       ELSE tpc' = "search" /\ prob_i' = prob_i + 1
    /\ UNCHANGED <<d, p, q, evars, gvars, results, dist_k,
                   pL_prev_dist, all_d, threshold_p>>

\* the plotting block: the label f"...{threshold_p:.3f}" raises TypeError
\* when threshold_p is None
Plot ==
    /\ tpc = "plot"
    /\ tpc' = IF threshold_p = None THEN "TypeError" ELSE "plotted"
    /\ UNCHANGED <<d, p, q, evars, gvars, results, prob_i, dist_k,
                   pL_prev_dist, all_d, threshold_p>>

\* `return threshold_p`
ThresholdReturn ==
    /\ tpc = "plotted"
    /\ tpc' = "returned"
    /\ UNCHANGED <<d, p, q, evars, gvars, results, prob_i, dist_k,
                   pL_prev_dist, all_d, threshold_p>>

(***************************************************************************)
(* Specifications                                                            *)
(***************************************************************************)
\* values of the variables of a function that is not under way
ExtractIdle ==
    /\ sampled_runs = <<>>
    /\ defects = <<>>
    /\ run_idx = 0
    /\ epc = "idle"

BuildIdle(pc) ==
    /\ graph = <<>>
    /\ t = 0
    /\ i = 1
    /\ gpc = pc

ThresholdIdle ==
    /\ results = <<>>
    /\ prob_i = 0
    /\ dist_k = 1
    /\ pL_prev_dist = 0 - 1
    /\ all_d = TRUE
    /\ threshold_p = None
    /\ tpc = "idle"

\* raw records of a given length
Records(len) == [1..len -> Bit]

\* process_measurements(sampled_runs, d) on a one-run batch whose record has
\* any length up to MaxExtra more than RecordLen(d)
InitExtract ==
    /\ d \in 2..MaxShotD
    /\ p \in {50}
    /\ q = p
    /\ \E len \in 0..(RecordLen(d) + MaxExtra) :
          \E run \in Records(len) : sampled_runs = <<run>>
    /\ defects = <<>>
    /\ run_idx = 0
    /\ epc = "loop"
    /\ BuildIdle("idle")
    /\ ThresholdIdle

NextExtract == ProcessRun \/ ProcessReturn

SpecExtract == InitExtract /\ [][NextExtract]_vars

\* build_decoding_graph(d, p, q)
InitBuild ==
    /\ d \in (0 - 1)..MaxD
    /\ p \in PValues
    /\ q \in PValues
    /\ ExtractIdle
    /\ BuildIdle("space")
    /\ ThresholdIdle

NextBuild == BuildStep

SpecBuild == InitBuild /\ [][NextBuild]_vars

\* simulate_threshold, one (d, p) point: the sampled records of the right
\* length go through process_measurements, then build_decoding_graph(d, p, p)
InitDecode ==
    /\ d \in 2..MaxShotD
    /\ p \in {50}
    /\ q = p
    /\ \E run \in Records(RecordLen(d)) : sampled_runs = <<run>>
    /\ defects = <<>>
    /\ run_idx = 0
    /\ epc = "loop"
    /\ BuildIdle("wait")
    /\ ThresholdIdle

NextDecode == ProcessRun \/ ProcessReturn \/ BuildAfterExtract \/ BuildStep

SpecDecode == InitDecode /\ [][NextDecode]_vars

\* simulate_threshold from `threshold_p = None` on, for any table of results
InitThreshold ==
    /\ d = 0
    /\ p = 0
    /\ q = 0
    /\ ExtractIdle
    /\ BuildIdle("idle")
    /\ \E cols \in [0..(NumProbs - 1) -> Columns] :
          results = [dv \in DistSet |->
                        [j \in 1..NumProbs |->
                            cols[j - 1][CHOOSE k \in 1..Len(distances) :
                                            distances[k] = dv]]]
    /\ prob_i = 0
    /\ dist_k = 1
    /\ pL_prev_dist = 0 - 1
    /\ all_d = TRUE
    /\ threshold_p = None
    /\ tpc = "search"

NextThreshold ==
    \/ SearchIndex
    \/ SearchExhausted
    \/ WalkDistance
    \/ WalkDone
    \/ EndIndex
    \/ Plot
    \/ ThresholdReturn

SpecThreshold == InitThreshold /\ [][NextThreshold]_vars

Init == InitExtract \/ InitBuild \/ InitDecode \/ InitThreshold

Next == NextExtract \/ NextBuild \/ BuildAfterExtract \/ NextThreshold

Spec == Init /\ [][Next]_vars

(***************************************************************************)
(* Properties of process_measurements, checked under SpecExtract             *)
(***************************************************************************)
\* S[t][i] as the record gives it: the bit at offset t*(d-1)+i for t < d-1,
\* finalData[i] XOR finalData[i+1] for t = d-1, finalData the last d bits
RecordS(run, dd, tt, ii) ==
    IF tt < dd - 1 THEN run[tt * (dd - 1) + ii + 1]
    ELSE Xor(run[Len(run) - dd + ii + 1], run[Len(run) - dd + ii + 2])

\* D[t][i] = S[0][i] for t = 0, S[t][i] XOR S[t-1][i] for t > 0
RecordD(run, dd, tt, ii) ==
    IF tt = 0 THEN RecordS(run, dd, 0, ii)
    ELSE Xor(RecordS(run, dd, tt, ii), RecordS(run, dd, tt - 1, ii))

ExtractFailed == epc \in {"ValueError", "IndexError"}
ExtractOver == epc = "returned" \/ ExtractFailed

\* C1: a record of length (d-1)*(d-1)+d is never rejected, and the vector
\* returned for it has d*(d-1) bits, the one at position (d-1)*t+i being
\* S[0][i] for t = 0 and S[t][i] XOR S[t-1][i] for t > 0.
C1_DefectLattice ==
    \A s \in 1..Len(sampled_runs) :
        Len(sampled_runs[s]) = RecordLen(d) =>
            /\ ~ExtractFailed
            /\ epc = "returned" =>
                /\ Len(defects) = Len(sampled_runs)
                /\ Len(defects[s]) = d * (d - 1)
                /\ \A tt \in 0..(d - 1) : \A ii \in 0..(d - 2) :
                      defects[s][(d - 1) * tt + ii + 1]
                          = RecordD(sampled_runs[s], d, tt, ii)

\* a record of the right length has been processed for d = 3, and a defect
\* of a later round is set
C1_Witness ==
    /\ epc = "returned"
    /\ d = 3
    /\ Len(sampled_runs[1]) = RecordLen(d)
    /\ defects[1][(d - 1) * 2 + 1] = 1
    /\ defects[1][1] = 0

TimeOf(n) == n \div (d - 1)
SpaceOf(n) == n % (d - 1)

IsBoundary(e) == e.call = "add_boundary_edge"

\* an edge between (t, i-1) and (t, i)
IsSpaceLike(e) ==
    /\ e.call = "add_edge"
    /\ TimeOf(e.node1) = TimeOf(e.node2)
    /\ SpaceOf(e.node2) = SpaceOf(e.node1) + 1

\* an edge between (t-1, i) and (t, i)
IsTimeLike(e) ==
    /\ e.call = "add_edge"
    /\ SpaceOf(e.node1) = SpaceOf(e.node2)
    /\ TimeOf(e.node2) = TimeOf(e.node1) + 1

NumSpaceLike == Cardinality({k \in 1..Len(graph) : IsSpaceLike(graph[k])})
NumTimeLike == Cardinality({k \in 1..Len(graph) : IsTimeLike(graph[k])})
NumBoundary == Cardinality({k \in 1..Len(graph) : IsBoundary(graph[k])})

\* C3 as stated: for d >= 2 the graph has (d-2)*d space-like, 2*d boundary
\* and (d-1)*(d-1) time-like edges.
C3_Original ==
    (gpc = "returned" /\ d >= 2) =>
        /\ NumSpaceLike = (d - 2) * d
        /\ NumBoundary = 2 * d
        /\ NumTimeLike = (d - 1) * (d - 1)

\* C3 as amended: (d-2)*d space-like and (d-1)*(d-1) time-like edges, and
\* these are all the add_edge calls; 2*d boundary edges for d >= 3, but only
\* d of them (one per round) for d = 2, where i = 0 and i = d-2 coincide.
C3_EdgeCounts ==
    (gpc = "returned" /\ d >= 2) =>
        /\ NumSpaceLike = (d - 2) * d
        /\ NumTimeLike = (d - 1) * (d - 1)
        /\ NumBoundary = IF d = 2 THEN d ELSE 2 * d
        /\ Len(graph) = NumSpaceLike + NumTimeLike + NumBoundary

\* graphs have been returned for a distance with interior edges
C3_Witness ==
    /\ gpc = "returned"
    /\ d = 4
    /\ NumSpaceLike = 8
    /\ NumBoundary = 8

\* the annotations C4 gives for the space-like and time-like edges and the
\* range of the fault ids
InteriorAnnotations(e) ==
    /\ IsSpaceLike(e) =>
          e.error_probability = p /\ e.fault_ids = {SpaceOf(e.node2)}
    /\ IsTimeLike(e) => e.error_probability = q /\ e.fault_ids = {}
    /\ e.fault_ids \subseteq 0..(d - 1)

\* C4 as stated: a boundary edge carries probability p, {0} at (t,0) and
\* {d-1} at (t,d-2).
C4_Original ==
    \A k \in 1..Len(graph) :
        LET e == graph[k]
        IN  /\ InteriorAnnotations(e)
            /\ IsBoundary(e) =>
                  /\ e.error_probability = p
                  /\ SpaceOf(e.node1) = 0 => e.fault_ids = {0}
                  /\ SpaceOf(e.node1) = d - 2 => e.fault_ids = {d - 1}

\* C4 as amended: the boundary edge at (t,0) carries {0}; the one at (t,d-2)
\* carries {d-1} when d >= 3; for d = 2 the two positions are one node, whose
\* single boundary edge carries {0}.
C4_Annotations ==
    \A k \in 1..Len(graph) :
        LET e == graph[k]
        IN  /\ InteriorAnnotations(e)
            /\ IsBoundary(e) =>
                  /\ e.error_probability = p
                  /\ SpaceOf(e.node1) \in {0, d - 2}
                  /\ SpaceOf(e.node1) = 0 => e.fault_ids = {0}
                  /\ SpaceOf(e.node1) # 0 => e.fault_ids = {d - 1}

\* a graph with the three kinds of edge and different p and q is complete
C4_Witness ==
    /\ gpc = "returned"
    /\ p # q
    /\ \E k \in 1..Len(graph) : IsSpaceLike(graph[k])
    /\ \E k \in 1..Len(graph) : IsTimeLike(graph[k])
    /\ \E k \in 1..Len(graph) :
          IsBoundary(graph[k]) /\ graph[k].fault_ids = {d - 1}

Rank(e) == IF IsBoundary(e) THEN 3 ELSE IF IsTimeLike(e) THEN 2 ELSE 1

\* C10 as stated: round by round the space-like edges, then the boundary
\* edges of the round, and the time-like edges after all rounds.
C10_Original ==
    \A j \in 1..Len(graph) : \A k \in 1..Len(graph) :
        /\ (IsTimeLike(graph[j]) /\ IsBoundary(graph[k])) => k < j
        /\ (/\ IsBoundary(graph[j])
            /\ IsSpaceLike(graph[k])
            /\ TimeOf(graph[k].node1) = TimeOf(graph[j].node1) + 1) => j < k

\* C10 as amended: first all interior space-like edges, then all time-like
\* edges, then all boundary edges, each group in ascending (t, i).
C10_EmissionOrder ==
    \A j \in 1..Len(graph) : \A k \in 1..Len(graph) :
        j < k =>
            /\ Rank(graph[j]) <= Rank(graph[k])
            /\ Rank(graph[j]) = Rank(graph[k])
                  => graph[j].node2 < graph[k].node2

\* the builder has returned a graph holding the three groups
C10_Witness ==
    /\ gpc = "returned"
    /\ d = 3
    /\ Rank(graph[1]) = 1
    /\ Rank(graph[4]) = 2
    /\ Rank(graph[Len(graph)]) = 3

(***************************************************************************)
(* The shared layout, checked under SpecDecode                               *)
(***************************************************************************)
\* C9: the defect of (t, i) sits at position get_index(d, t, i) of the
\* defect vector, every edge endpoint is get_index(d, t, i) of some round t
\* and ancilla i, and every node index is a position of the defect vector.
C9_SharedLayout ==
    /\ epc = "returned" =>
          /\ Len(defects[1]) = d * (d - 1)
          /\ \A tt \in Rounds(d) : \A ii \in Ancillas(d) :
                /\ get_index(d, tt, ii) + 1 \in DOMAIN defects[1]
                /\ defects[1][get_index(d, tt, ii) + 1]
                      = RecordD(sampled_runs[1], d, tt, ii)
    /\ \A k \in 1..Len(graph) : \A n \in {graph[k].node1, graph[k].node2} :
          /\ \E tt \in Rounds(d) : \E ii \in Ancillas(d) : n = get_index(d, tt, ii)
          /\ n \in 0..(d * (d - 1) - 1)
          /\ n + 1 \in DOMAIN defects[1]

\* the graph is complete and the last node of the lattice, an edge endpoint,
\* holds a defect
C9_Witness ==
    /\ epc = "returned"
    /\ gpc = "returned"
    /\ d = 3
    /\ defects[1][d * (d - 1)] = 1
    /\ \E k \in 1..Len(graph) : graph[k].node2 = d * (d - 1) - 1

(***************************************************************************)
(* Properties of the crossing search, checked under SpecThreshold            *)
(***************************************************************************)
SearchOver == tpc \in {"plot", "plotted", "returned", "TypeError"}

LastK == Len(distances)

\* the flag of the claim at index ii: cleared exactly when some distance
\* after the first, with ii > 0 and the previous pL positive, has a pL that
\* does not exceed the previous one
ClaimFlag(ii) ==
    ~\E k \in 2..LastK :
        /\ ii > 0
        /\ pL(distances[k - 1], ii) > 0
        /\ ~(pL(distances[k], ii) > pL(distances[k - 1], ii))

\* the midpoint at the first index of S, None when S is empty
FirstMidpoint(S) ==
    IF S = {} THEN None
    ELSE Some(Midpoint(CHOOSE ii \in S : \A jj \in S : ii <= jj))

\* C6 as stated: the result is the midpoint at the first index whose flag is
\* still true after the last distance.  The scan is read in each of the ways
\* the sentence allows: from index 0 or 1, up to the last index or the one
\* before it.
C6_Original ==
    SearchOver =>
        \E from \in {0, 1} : \E to \in {NumProbs - 2, NumProbs - 1} :
            threshold_p = FirstMidpoint({ii \in from..to : ClaimFlag(ii)})

\* an index at which the code records the threshold: the flag is still true
\* and the comparison of the last distance is made, the pL of the distance
\* before the last being positive
Crossing(ii) ==
    /\ ClaimFlag(ii)
    /\ pL(distances[LastK - 1], ii) > 0

CrossingIndices == {ii \in 1..(NumProbs - 2) : Crossing(ii)}

\* C6 as amended: indices 0 .. len-2 are scanned in ascending order; after a
\* full walk the flag is as the claim says; the result is the midpoint at the
\* first index i in 1 .. len-2 whose flag is still true at the last distance
\* and whose last comparison is made (the pL of the distance before the last
\* is positive); the scan stops there; with no such index the result is None.
C6_CrossingSearch ==
    /\ (tpc = "endindex" /\ dist_k > LastK) => all_d = ClaimFlag(prob_i)
    /\ SearchOver =>
          /\ threshold_p = FirstMidpoint(CrossingIndices)
          /\ threshold_p # None => threshold_p = Some(Midpoint(prob_i))
          /\ threshold_p = None => prob_i = NumProbs - 1

\* a crossing found at the second scanned index, after an index whose flag
\* stayed true without a crossing
C6_Witness ==
    /\ tpc = "returned"
    /\ prob_i = 2
    /\ threshold_p = Some(Midpoint(2))
    /\ ClaimFlag(1)

\* C7: with no crossing the function returns None and does not end in an error.
C7_Original == (SearchOver /\ threshold_p = None) => tpc # "TypeError"

StrictlyIncreasingTable ==
    \A ii \in 0..(NumProbs - 1) : \A k \in 2..LastK :
        pL(distances[k], ii) > pL(distances[k - 1], ii)

\* C8: for a table strictly increasing with distance at every index the
\* result is (probabilities[0] + probabilities[1]) / 2, found at i = 1.
C8_IncreasingTable ==
    (SearchOver /\ StrictlyIncreasingTable) =>
        /\ threshold_p = Some((probabilities(0) + probabilities(1)) \div 2)
        /\ prob_i = 1

\* the search has returned for a strictly increasing table
C8_Witness ==
    /\ tpc = "returned"
    /\ StrictlyIncreasingTable
    /\ threshold_p = Some((probabilities(0) + probabilities(1)) \div 2)

====
